---- MODULE Spec2Model ----
(***************************************************************************)
(* Model of the recurring-task scheduler (app/scheduler/scheduler.py).     *)
(*                                                                         *)
(* The scheduler keeps two dictionaries, tasks and crons, both keyed by    *)
(* the task's job_id.  A cron handle is an aiocron.crontab object: it has  *)
(* a five-field expression, the coroutine function it calls on every       *)
(* match, and it is either started or stopped.  Everything that runs on    *)
(* the asyncio loop is a coroutine of one of three kinds:                  *)
(*   run_task_now    the immediate run start() creates per handle          *)
(*   cron_execute    task.execute called by a cron fire (interval >= 60)   *)
(*   seconds_runner  the while-True loop wrapped_task creates (< 60)       *)
(* A coroutine is counted from the moment the loop is handed it            *)
(* (asyncio.create_task / aiocron's gather); wrapped_task itself does      *)
(* nothing but create the seconds_runner and is folded into the fire.      *)
(***************************************************************************)
EXTENDS Integers, FiniteSets, Sequences, Bags, TLC

VARIABLES tasks, crons, coros, last, cal

\* the link updater (app/tasks/s3_link_updater.py): the templates table, the
\* bucket, the temporary file, and one run of S3LinkUpdaterTask.execute
VARIABLES db, store, tmp, env, templates, at, idx, fld, work, updated, updated_count, log

sched == <<tasks, crons, coros, last, cal>>
link == <<db, store, tmp, env, templates, at, idx, fld, work, updated, updated_count, log>>
vars == <<sched, link>>

(***************************************************************************)
(* Bounds of the model.                                                    *)
(***************************************************************************)
\* run_task_now coroutines alive at once
MaxNow == 2
\* coroutines created by cron fires (cron_execute, seconds_runner) alive at once
MaxFired == 2
\* days the calendar of SpecCron runs over
MaxDays == 2

TaskIds == {"task_a", "task_b"}
\* one interval below a minute, one above
Intervals == {30, 90}
\* intervals whose calendar is followed in SpecCron
\* config.py: the link updater's interval, three days
S3_LINK_UPDATE_INTERVAL == 3 * 24 * 60 * 60
CronIntervals == {90, 420, 3600, 7200, 82800, S3_LINK_UPDATE_INTERVAL}
\* minutes of the day at which the scheduler of SpecCron is started
CronStarts == {0, 55, 22 * 60 + 59, 23 * 60 + 59}
\* the scheduler of main.py holds a single task
LiveIds == {"task_a"}
Outcomes == {"returned", "raised"}

EmptyMap == [x \in {} |-> x]

None == "None"

(***************************************************************************)
(* BaseTask: a task is known by its job_id and its interval.               *)
(***************************************************************************)
Task(job_id, interval) == [job_id |-> job_id, interval |-> interval]

(***************************************************************************)
(* Cron expressions.  Only the minute and the hour field ever differ from  *)
(* "*"; a field is "*", a number, or "*" with a step.                      *)
(***************************************************************************)
Star == [kind |-> "*", n |-> 0]
At(v) == [kind |-> "at", n |-> v]
Every(step) == [kind |-> "*/", n |-> step]

\* add_task, lines 42-49: the expression built for an interval >= 60
CronExpr(interval_seconds) ==
    LET minutes == interval_seconds \div 60 IN
    IF minutes < 60
    THEN [minute |-> IF minutes > 1 THEN Every(minutes) ELSE Star, hour |-> Star]
    ELSE LET hours == minutes \div 60 IN
         [minute |-> At(0), hour |-> IF hours > 1 THEN Every(hours) ELSE Star]

\* _create_seconds_job, line 97: "* * * * *"
EveryMinuteExpr == [minute |-> Star, hour |-> Star]

\* a cron field matches a value of its range lo..hi; a step counts from lo
\* and starts again at lo whenever the field wraps
FieldMatches(f, v, lo) ==
    CASE f.kind = "*"  -> TRUE
      [] f.kind = "at" -> v = f.n
      [] f.kind = "*/" -> (v - lo) % f.n = 0

\* the expression matches minute-of-epoch t (day, month and weekday are "*")
CronMatches(expr, t) ==
    /\ FieldMatches(expr.minute, t % 60, 0)
    /\ FieldMatches(expr.hour, (t \div 60) % 24, 0)

\* add_task, lines 34-56: the handle built for a task, not started
NewCron(task) ==
    IF task.interval < 60
    THEN [spec |-> EveryMinuteExpr, func |-> "wrapped_task", task |-> task, started |-> FALSE]
    ELSE [spec |-> CronExpr(task.interval), func |-> "execute", task |-> task, started |-> FALSE]

(***************************************************************************)
(* Coroutines on the loop.                                                 *)
(***************************************************************************)
Coro(kind, task, pc) == [kind |-> kind, task |-> task, pc |-> pc]

\* the coroutines of B that are in S, counted with their copies
Count(B, S) == BagCardinality([c \in DOMAIN B \cap S |-> B[c]])

\* executions of task.execute() of job_id in flight
InFlight(B, id) == Count(B, {c \in DOMAIN B : c.task.job_id = id /\ c.pc = "execute"})
\* seconds_runner loops alive for job_id
NumLoops(B, id) == Count(B, {c \in DOMAIN B : c.task.job_id = id /\ c.kind = "seconds_runner"})
\* immediate runs of job_id not yet over
NumNow(B, id) == Count(B, {c \in DOMAIN B : c.task.job_id = id /\ c.kind = "run_task_now"})
NumNowAll(B) == Count(B, {c \in DOMAIN B : c.kind = "run_task_now"})
\* coroutines created by cron fires
NumFiredAll(B) == Count(B, {c \in DOMAIN B : c.kind # "run_task_now"})

Put(f, k, v) == [x \in DOMAIN f \cup {k} |-> IF x = k THEN v ELSE f[x]]
Drop(f, k) == [x \in DOMAIN f \ {k} |-> f[x]]

Did(op, id, ret) == [op |-> op, id |-> id, ret |-> ret]

\* the calendar: the minute it is, the minute of the last fire, and the
\* minutes between the last two fires (0 before the second fire)
CalAt(t) == [now |-> t, lastFire |-> 0 - 1, gap |-> 0]
NoCal == CalAt(0)

(***************************************************************************)
(* The link updater: URLs, object paths, the template rows.                *)
(*                                                                         *)
(* A URL is kept as the parts the code looks at: whether it holds the      *)
(* text "s3.amazonaws.com/", the "/"-separated segments after the host,    *)
(* and its query string (0: none, n > 0: the signature issued at time n).  *)
(* A path, and a key of the bucket, is a string "seg/seg[?query]": its     *)
(* segments and the query string left on its last segment.                 *)
(***************************************************************************)
Url(host, segs, q) == [host |-> host, segs |-> segs, q |-> q]
\* a column that is NULL, and one that is the empty string
NoneUrl == Url("none", <<>>, 0)
EmptyUrl == Url("empty", <<>>, 0)
\* "if template.download_url:" (lines 81, 100)
Falsy(url) == url.host \in {"none", "empty"}

Path(segs, q) == [segs |-> segs, q |-> q]
\* None or "": "if not path" (line 189), "if old_path" (lines 94, 113)
NoPath == Path(<<>>, 0)

Template(id, download_url, image_url) ==
    [id |-> id, download_url |-> download_url, image_url |-> image_url]

\* the field being refreshed: what _update_template_urls and _refresh_s3_link
\* hold in their locals, and what happened to it so far
NoWork ==
    [stage |-> "none", idx |-> 0, fld |-> "none", url |-> NoneUrl,
     old_path |-> NoPath, path |-> NoPath, found |-> FALSE, http |-> "none",
     key |-> NoPath, fresh |-> FALSE, uploaded |-> FALSE, new_url |-> NoneUrl,
     raised |-> FALSE, fault |-> FALSE, deleted |-> NoPath]

\* what one run of execute() has done so far
NoLog ==
    [commits |-> 0, committed |-> FALSE, error |-> FALSE, looped |-> FALSE,
     attempts |-> EmptyBag, called |-> {}, processed |-> {}, signed |-> {},
     outcome |-> "returned"]

\* no link updater around
LinkOff ==
    /\ db = <<>>
    /\ store = EmptyMap
    /\ tmp = "none"
    /\ env = [style |-> "path", clock |-> 0, uuids |-> 0, runs |-> 0, faults |-> 0]
    /\ templates = <<>>
    /\ at = "idle"
    /\ idx = 0
    /\ fld = "download_url"
    /\ work = NoWork
    /\ updated = FALSE
    /\ updated_count = 0
    /\ log = NoLog

(***************************************************************************)
(* TaskScheduler.__init__                                                  *)
(***************************************************************************)
Init ==
    /\ LinkOff
    /\ tasks = EmptyMap
    /\ crons = EmptyMap
    /\ coros = EmptyBag
    /\ last = Did("init", None, None)
    /\ cal = NoCal

(***************************************************************************)
(* TaskScheduler.add_task                                                  *)
(***************************************************************************)
\* a check that never finds the identifier
AddTaskNeverExists(job_id) == FALSE

\* line 28
AddTaskExists(job_id) == job_id \in DOMAIN tasks

AddTask(job_id, interval) ==
    LET task == Task(job_id, interval) IN
    /\ IF AddTaskExists(job_id)
       THEN /\ last' = Did("add_task", job_id, FALSE)
            /\ UNCHANGED <<tasks, crons>>
       ELSE /\ crons' = Put(crons, job_id, NewCron(task))
            /\ tasks' = Put(tasks, job_id, task)
            /\ last' = Did("add_task", job_id, TRUE)
    /\ UNCHANGED <<coros, cal>>
    /\ UNCHANGED link

(***************************************************************************)
(* TaskScheduler.remove_task                                               *)
(***************************************************************************)
\* a removal that leaves the handle in the dictionary
RemoveCronKeeps(task_id) == crons

\* a remove_task that stops the handle and leaves it in the dictionary
RemoveCronStopsOnly(task_id) ==
    IF task_id \in DOMAIN crons
    THEN [crons EXCEPT ![task_id].started = FALSE]
    ELSE crons

\* lines 114-116: the handle is stopped and dropped from the dictionary
RemoveCron(task_id) == IF task_id \in DOMAIN crons THEN Drop(crons, task_id) ELSE crons

RemoveTask(task_id) ==
    /\ IF task_id \notin DOMAIN tasks
       THEN /\ last' = Did("remove_task", task_id, FALSE)
            /\ UNCHANGED <<tasks, crons>>
       ELSE /\ crons' = RemoveCron(task_id)
            /\ tasks' = Drop(tasks, task_id)
            /\ last' = Did("remove_task", task_id, TRUE)
    /\ UNCHANGED <<coros, cal>>
    /\ UNCHANGED link

(***************************************************************************)
(* TaskScheduler.start and _run_task_now                                   *)
(***************************************************************************)
\* a start() that creates the immediate run twice
StartImmediateTwice(task) ==
    SetToBag({Coro("run_task_now", task, "execute")})
        (+) SetToBag({Coro("run_task_now", task, "execute")})

\* line 135: the coroutines start() creates for one handle
StartImmediate(task) == SetToBag({Coro("run_task_now", task, "execute")})

RECURSIVE StartAll(_)
\* lines 129-135 over the handles ids
StartAll(ids) ==
    IF ids = {} THEN EmptyBag
    ELSE LET id == CHOOSE x \in ids : TRUE IN
         StartImmediate(tasks[id]) (+) StartAll(ids \ {id})

Start ==
    /\ IF DOMAIN tasks = {}
       THEN UNCHANGED <<crons, coros>>
       ELSE /\ NumNowAll(coros) + Cardinality(DOMAIN crons) <= MaxNow
            /\ crons' = [id \in DOMAIN crons |-> [crons[id] EXCEPT !.started = TRUE]]
            /\ coros' = coros (+) StartAll(DOMAIN crons)
    /\ last' = Did("start", None, None)
    /\ UNCHANGED <<tasks, cal>>
    /\ UNCHANGED link

(***************************************************************************)
(* TaskScheduler.shutdown                                                  *)
(***************************************************************************)
\* a shutdown() that stops the handles and keeps the dictionary
ShutdownCronsStopOnly == [id \in DOMAIN crons |-> [crons[id] EXCEPT !.started = FALSE]]

\* lines 156-159: every handle is stopped, then the dictionary is replaced
ShutdownCrons == EmptyMap

Shutdown ==
    /\ crons' = ShutdownCrons
    /\ last' = Did("shutdown", None, None)
    /\ UNCHANGED <<tasks, coros, cal>>
    /\ UNCHANGED link

(***************************************************************************)
(* The asyncio loop: cron fires, executions ending, sleeps ending.         *)
(***************************************************************************)
\* what a fire of the handle puts on the loop: task.execute (lines 52-56), or
\* wrapped_task, which creates a seconds_runner (lines 77-93)
Fired(cron) ==
    IF cron.func = "wrapped_task"
    THEN Coro("seconds_runner", cron.task, "execute")
    ELSE Coro("cron_execute", cron.task, "execute")

\* a started handle fires at a minute its expression matches
Tick(id) ==
    /\ id \in DOMAIN crons
    /\ crons[id].started
    /\ NumFiredAll(coros) < MaxFired
    /\ coros' = coros (+) SetToBag({Fired(crons[id])})
    /\ last' = Did("tick", None, None)
    /\ UNCHANGED <<tasks, crons, cal>>
    /\ UNCHANGED link

\* a seconds_runner that does not catch the exception
AfterExecuteEndsOnRaise(c, outcome) ==
    IF c.kind = "seconds_runner" /\ outcome = "returned"
    THEN SetToBag({[c EXCEPT !.pc = "sleep"]})
    ELSE EmptyBag

\* what is left of a coroutine when its task.execute() has returned or raised:
\* _run_task_now (lines 146-151) and a cron call end; seconds_runner
\* (lines 82-86) logs an exception and sleeps either way
AfterExecute(c, outcome) ==
    IF c.kind = "seconds_runner"
    THEN SetToBag({[c EXCEPT !.pc = "sleep"]})
    ELSE EmptyBag

Done(c, outcome) ==
    /\ c \in DOMAIN coros
    /\ c.pc = "execute"
    /\ coros' = (coros (-) SetToBag({c})) (+) AfterExecute(c, outcome)
    /\ last' = Did("done", None, None)
    /\ UNCHANGED <<tasks, crons, cal>>
    /\ UNCHANGED link

\* seconds_runner, lines 81-86: asyncio.sleep(task.interval) is over
Wake(c) ==
    /\ c \in DOMAIN coros
    /\ c.pc = "sleep"
    /\ coros' = (coros (-) SetToBag({c})) (+) SetToBag({[c EXCEPT !.pc = "execute"]})
    /\ last' = Did("wake", c.task.job_id, None)
    /\ UNCHANGED <<tasks, crons, cal>>
    /\ UNCHANGED link

CoroSpace ==
    { Coro(k, Task(id, i), pc) :
        k \in {"run_task_now", "cron_execute", "seconds_runner"},
        id \in TaskIds, i \in Intervals, pc \in {"execute", "sleep"} }

Next ==
    \/ \E id \in TaskIds, i \in Intervals : AddTask(id, i)
    \/ \E id \in TaskIds : RemoveTask(id)
    \/ Start
    \/ Shutdown
    \/ \E id \in TaskIds : Tick(id)
    \/ \E c \in CoroSpace, o \in Outcomes : Done(c, o)
    \/ \E c \in CoroSpace : Wake(c)

Spec == Init /\ [][Next]_vars

(***************************************************************************)
(* The scheduler of main.py: one task.  The loop is fair: a started handle *)
(* fires at its next matching minute, an execution that terminates ends,   *)
(* and a sleep ends.                                                       *)
(***************************************************************************)
LiveNext ==
    \/ \E id \in LiveIds, i \in Intervals : AddTask(id, i)
    \/ \E id \in LiveIds : RemoveTask(id)
    \/ Start
    \/ Shutdown
    \/ \E id \in LiveIds : Tick(id)
    \/ \E c \in CoroSpace, o \in Outcomes : Done(c, o)
    \/ \E c \in CoroSpace : Wake(c)

LiveSpec ==
    /\ Init
    /\ [][LiveNext]_vars
    /\ \A id \in LiveIds : WF_vars(Tick(id))
    /\ \A c \in CoroSpace : WF_vars(\E o \in Outcomes : Done(c, o))
    /\ \A c \in CoroSpace : WF_vars(Wake(c))

(***************************************************************************)
(* The calendar of one handle: main.py has registered one task with an     *)
(* interval of a minute or more and started the scheduler at some minute   *)
(* of a day; the immediate run is over.  Time passes minute by minute and  *)
(* the handle fires at every minute its expression matches.                *)
(***************************************************************************)
CronInit ==
    \E i \in CronIntervals, t \in CronStarts :
        LET task == Task("task_a", i) IN
        /\ tasks = Put(EmptyMap, "task_a", task)
        /\ crons = Put(EmptyMap, "task_a", [NewCron(task) EXCEPT !.started = TRUE])
        /\ coros = EmptyBag
        /\ last = Did("start", None, None)
        /\ cal = CalAt(t)
        /\ LinkOff

\* a minute passes that the expression of the handle does not match
ElapseQuiet(id) ==
    /\ cal.now < MaxDays * 24 * 60
    /\ ~CronMatches(crons[id].spec, cal.now + 1)
    /\ cal' = [cal EXCEPT !.now = cal.now + 1]
    /\ UNCHANGED <<tasks, crons, coros, last>>
    /\ UNCHANGED link

\* a minute passes that the expression matches: the handle fires
ElapseFire(id) ==
    /\ cal.now < MaxDays * 24 * 60
    /\ CronMatches(crons[id].spec, cal.now + 1)
    /\ cal' = [now |-> cal.now + 1,
               lastFire |-> cal.now + 1,
               gap |-> IF cal.lastFire >= 0 THEN cal.now + 1 - cal.lastFire ELSE 0]
    /\ NumFiredAll(coros) < MaxFired
    /\ coros' = coros (+) SetToBag({Fired(crons[id])})
    /\ last' = Did("tick", None, None)
    /\ UNCHANGED <<tasks, crons>>
    /\ UNCHANGED link

CronNext ==
    \/ ElapseQuiet("task_a")
    \/ ElapseFire("task_a")
    \/ \E c \in DOMAIN coros, o \in Outcomes : Done(c, o)

SpecCron == CronInit /\ [][CronNext]_vars

(***************************************************************************)
(* S3LinkUpdaterTask (app/tasks/s3_link_updater.py).                       *)
(*                                                                         *)
(* One run of execute() is a sequence of steps, one per await: the         *)
(* session and the query, then for every template and each of its two      *)
(* fields the probe, the signature, the download, the upload, the          *)
(* assignment and the deletion, then the commit.  What the bucket, the     *)
(* HTTP server and the database answer is an input of the step.            *)
(***************************************************************************)
MaxTemplates == 2
MaxRuns == 2
MaxFaults == 1

Bucket == "bkt"
Styles == {"path", "vhost", "aws"}

\* _extract_path_from_url (lines 120-143): after "s3.amazonaws.com/" the
\* rest of the URL, query string included; otherwise what follows the host,
\* up to the "?"
extract_path_from_url(url) ==
    IF url.segs = <<>>
    THEN NoPath
    ELSE IF url.host = "marker" THEN Path(url.segs, url.q) ELSE Path(url.segs, 0)

\* Key=path.split("/")[1] (line 158); NoPath stands for the IndexError
DeleteKey(path) ==
    IF Len(path.segs) < 2
    THEN NoPath
    ELSE Path(<<path.segs[2]>>, IF Len(path.segs) = 2 THEN path.q ELSE 0)

\* s3.generate_presigned_url (lines 196-200, 268-272): the URL of the key in
\* the addressing style of the endpoint, signed at the time it is issued
generate_presigned_url(key, e) ==
    CASE e.style = "path" -> Url("plain", <<Bucket>> \o key.segs, e.clock + 1)
      [] e.style = "vhost" -> Url("plain", key.segs, e.clock + 1)
      [] OTHER -> Url("marker", key.segs, e.clock + 1)

\* the key a presigned URL was signed for
SignedKey(url, e) ==
    IF e.style = "path" THEN Path(Tail(url.segs), 0) ELSE Path(url.segs, 0)

\* the upload goes to a fixed name
fixed_filename(e) == Path(<<"b">>, 0)

\* f"{uuid.uuid4()}{ext}" (line 257): a name never generated before
unique_filename(e) == Path(<<"u" \o ToString(e.uuids + 1)>>, 0)

\* the query of lines 39-46: the rows with a column that is not NULL
Selected(r) == r.download_url # NoneUrl \/ r.image_url # NoneUrl
Query(table) == SelectSeq(table, Selected)

\* session.commit() (line 65): the rows loaded by the query are written back
Flush(table, loaded) ==
    [i \in DOMAIN table |->
        IF \E k \in DOMAIN loaded : loaded[k].id = i
        THEN CHOOSE t \in {loaded[k] : k \in DOMAIN loaded} : t.id = i
        ELSE table[i]]

(* the tables, buckets and endpoints a run may find *)
U_b == Url("marker", <<"b">>, 0)
U_ab == Url("plain", <<"a", "b">>, 0)
U_bad == Url("plain", <<>>, 0)
Rows ==
    << <<U_b, U_ab>>, <<U_bad, U_b>>, <<EmptyUrl, EmptyUrl>>,
       <<U_ab, NoneUrl>>, <<NoneUrl, NoneUrl>> >>
RowAt(k) == Rows[((k - 1) % Len(Rows)) + 1]
\* the tables: up to MaxTemplates rows in a row of Rows, from any of them on
Tables ==
    { [i \in 1..n |-> Template(i, RowAt(s + i)[1], RowAt(s + i)[2])] :
        s \in 1..Len(Rows), n \in 0..MaxTemplates }
\* what a URL serves, and what the object of a key holds: named by the last
\* segment
Body(segs) == "body of " \o segs[Len(segs)]
Buckets ==
    { [k \in S |-> Body(k.segs)] : S \in SUBSET {Path(<<"b">>, 0), Path(<<"a", "b">>, 0)} }

LinkInit ==
    /\ tasks = EmptyMap
    /\ crons = EmptyMap
    /\ coros = EmptyBag
    /\ last = Did("init", None, None)
    /\ cal = NoCal
    /\ db \in Tables
    /\ store \in Buckets
    /\ tmp = "none"
    /\ \E s \in Styles : env = [style |-> s, clock |-> 0, uuids |-> 0, runs |-> 0, faults |-> 0]
    /\ templates = <<>>
    /\ at = "idle"
    /\ idx = 0
    /\ fld = "download_url"
    /\ work = NoWork
    /\ updated = FALSE
    /\ updated_count = 0
    /\ log = NoLog

\* an answer other than "ok" is a failure of a collaborator
Answer(o) == o = "ok" \/ env.faults < MaxFaults
Counted(e, o) == IF o = "ok" THEN e ELSE [e EXCEPT !.faults = @ + 1]
Noted(w, o) == IF o = "ok" THEN w ELSE [w EXCEPT !.fault = TRUE]

\* "except Exception" of line 68 lets the failure out of execute()
ExecuteEndsRaising(failure) == "raised"

\* "except Exception" (lines 68-69): whatever failed, execute() returns
ExecuteEnds(failure) == "returned"

\* execute, lines 34-57: the session, the query, the S3 client, the HTTP
\* session; a failure of any of them ends the run in the handler of line 68
BeginRun(o) ==
    /\ at = "idle"
    /\ env.runs < MaxRuns
    /\ Answer(o)
    /\ env' = Counted([env EXCEPT !.runs = @ + 1], o)
    /\ IF o = "ok"
       THEN /\ templates' = Query(db)
            /\ at' = "field"
            /\ idx' = 1
            /\ log' = [NoLog EXCEPT !.looped = TRUE]
       ELSE /\ templates' = <<>>
            /\ at' = "done"
            /\ idx' = 0
            /\ log' = [NoLog EXCEPT !.error = TRUE, !.outcome = ExecuteEnds(o)]
    /\ fld' = "download_url"
    /\ work' = NoWork
    /\ updated' = FALSE
    /\ updated_count' = 0
    /\ UNCHANGED <<db, store, tmp>>
    /\ UNCHANGED sched

\* the end of a field (lines 96-98, 115-118) and, after the second field,
\* of the record (lines 60-63)
FieldOver(upd) ==
    /\ at' = "field"
    /\ IF fld = "download_url"
       THEN /\ fld' = "image_url"
            /\ idx' = idx
            /\ updated' = upd
            /\ updated_count' = updated_count
       ELSE /\ fld' = "download_url"
            /\ idx' = idx + 1
            /\ updated' = FALSE
            /\ updated_count' = updated_count + (IF upd THEN 1 ELSE 0)
\* an exception in a field ends the record: it is caught at line 62 only
FieldRaisedEndsRecord(upd) ==
    /\ at' = "field"
    /\ fld' = "download_url"
    /\ idx' = idx + 1
    /\ updated' = FALSE
    /\ updated_count' = updated_count

\* an exception in a field is caught by the field's own handler (lines 96-97,
\* 115-116)
FieldRaised(upd) == FieldOver(upd)

Processed(l) == IF fld = "image_url" THEN [l EXCEPT !.processed = @ \cup {idx}] ELSE l
Finished(w) == [w EXCEPT !.stage = "finished"]
Failed(w) == [w EXCEPT !.stage = "finished", !.raised = TRUE]

\* every field is refreshed, absent or not
PresentAlways(url) == TRUE

\* "if template.download_url:" (lines 81, 100)
Present(url) == ~Falsy(url)

\* _update_template_urls, lines 81-87 and 100-106, and _refresh_s3_link,
\* lines 188-190: the field is skipped when absent; its path is extracted;
\* no path is a ValueError, caught at line 96 or 115
FieldStart ==
    /\ at = "field"
    /\ idx <= Len(templates)
    /\ LET url == templates[idx][fld]
           w == [NoWork EXCEPT !.stage = "running", !.idx = idx, !.fld = fld, !.url = url,
                               !.old_path = extract_path_from_url(url),
                               !.path = extract_path_from_url(url)]
       IN  IF ~Present(url)
           THEN /\ work' = NoWork
                /\ log' = Processed(log)
                /\ FieldOver(updated)
           ELSE IF w.path = NoPath
                THEN /\ work' = Failed(w)
                     /\ log' = Processed([log EXCEPT !.attempts = @ (+) SetToBag({<<idx, fld>>})])
                     /\ FieldRaised(updated)
                ELSE /\ work' = w
                     /\ log' = [log EXCEPT !.attempts = @ (+) SetToBag({<<idx, fld>>})]
                     /\ at' = "head"
                     /\ UNCHANGED <<idx, fld, updated, updated_count>>
    /\ UNCHANGED <<db, store, tmp, env, templates>>
    /\ UNCHANGED sched

\* s3.head_object (line 193): the key is there, or it is not, or the probe fails
HeadObject(o) ==
    /\ at = "head"
    /\ Answer(o)
    /\ env' = Counted(env, o)
    /\ LET found == o = "ok" /\ work.path \in DOMAIN store
       IN  /\ work' = Noted([work EXCEPT !.found = found], o)
           /\ at' = IF found THEN "sign" ELSE "get"
    /\ log' = [log EXCEPT !.called = @ \cup {idx}]
    /\ UNCHANGED <<db, store, tmp, templates, idx, fld, updated, updated_count>>
    /\ UNCHANGED sched

\* s3.generate_presigned_url for the probed key (lines 196-202); a failure
\* goes to the re-upload as a missing key does (lines 204-208)
Sign(o) ==
    /\ at = "sign"
    /\ Answer(o)
    /\ IF o = "ok"
       THEN /\ work' = [work EXCEPT !.new_url = generate_presigned_url(work.path, env),
                                     !.key = work.path]
            /\ env' = [env EXCEPT !.clock = @ + 1]
            /\ at' = "assign"
       ELSE /\ work' = Noted(work, o)
            /\ env' = Counted(env, o)
            /\ at' = "get"
    /\ UNCHANGED <<db, store, tmp, templates, idx, fld, updated, updated_count, log>>
    /\ UNCHANGED sched

\* _reupload_file, lines 235-250: the temporary file, then the download
Get(o) ==
    /\ at = "get"
    /\ Answer(o)
    /\ env' = Counted(env, o)
    /\ CASE o = "ok" ->
              /\ tmp' = Body(work.url.segs)
              /\ work' = [work EXCEPT !.http = "200"]
              /\ at' = "upload"
         [] o = "status" ->
              /\ tmp' = "empty"
              /\ work' = Noted([work EXCEPT !.http = "not 200", !.raised = TRUE], o)
              /\ at' = "cleanup"
         [] OTHER ->
              /\ tmp' = "partial"
              /\ work' = Noted([work EXCEPT !.http = "broken", !.raised = TRUE], o)
              /\ at' = "cleanup"
    /\ UNCHANGED <<db, store, templates, idx, fld, updated, updated_count, log>>
    /\ UNCHANGED sched

\* _reupload_file, lines 253-265: the new name and the upload
Upload(o) ==
    /\ at = "upload"
    /\ Answer(o)
    /\ LET key == unique_filename(env)
       IN  /\ env' = Counted([env EXCEPT !.uuids = @ + 1], o)
           /\ IF o = "ok"
              THEN /\ store' = Put(store, key, tmp)
                   /\ work' = [work EXCEPT !.key = key, !.fresh = key \notin DOMAIN store,
                                            !.uploaded = TRUE]
                   /\ at' = "signnew"
              ELSE /\ store' = store
                   /\ work' = Noted([work EXCEPT !.key = key, !.raised = TRUE], o)
                   /\ at' = "cleanup"
    /\ UNCHANGED <<db, tmp, templates, idx, fld, updated, updated_count, log>>
    /\ UNCHANGED sched

\* _reupload_file, lines 268-274: the URL of the new key
SignNew(o) ==
    /\ at = "signnew"
    /\ Answer(o)
    /\ IF o = "ok"
       THEN /\ work' = [work EXCEPT !.new_url = generate_presigned_url(work.key, env)]
            /\ env' = [env EXCEPT !.clock = @ + 1]
       ELSE /\ work' = Noted([work EXCEPT !.raised = TRUE], o)
            /\ env' = Counted(env, o)
    /\ at' = "cleanup"
    /\ UNCHANGED <<db, store, tmp, templates, idx, fld, updated, updated_count, log>>
    /\ UNCHANGED sched

\* the temporary file is removed only when the re-upload succeeded
RemoveTempOnSuccess(w, t) == IF w.raised THEN t ELSE "none"

\* _reupload_file, lines 276-279: os.remove(temp_path) in the finally
RemoveTemp(w, t) == "none"

\* the end of _reupload_file: the finally, then the return to line 87 or 106,
\* or the exception on its way to line 96 or 115
Cleanup ==
    /\ at = "cleanup"
    /\ tmp' = RemoveTemp(work, tmp)
    /\ IF work.raised
       THEN /\ work' = Finished(work)
            /\ log' = Processed(log)
            /\ FieldRaised(updated)
       ELSE /\ work' = work
            /\ log' = log
            /\ at' = "assign"
            /\ UNCHANGED <<idx, fld, updated, updated_count>>
    /\ UNCHANGED <<db, store, env, templates>>
    /\ UNCHANGED sched

\* _update_template_urls, lines 88-94 and 107-113: the new URL is stored in
\* the field when it differs from the old one
Assign ==
    /\ at = "assign"
    /\ IF work.new_url # work.url
       THEN /\ templates' = [templates EXCEPT ![idx][fld] = work.new_url]
            /\ log' = [log EXCEPT !.signed = @ \cup
                          {[idx |-> idx, fld |-> fld, key |-> work.key]}]
            /\ IF work.old_path # NoPath
               THEN /\ at' = "delete"
                    /\ updated' = TRUE
                    /\ work' = work
                    /\ UNCHANGED <<idx, fld, updated_count>>
               ELSE /\ work' = Finished(work)
                    /\ FieldOver(TRUE)
       ELSE /\ templates' = templates
            /\ log' = Processed(log)
            /\ work' = Finished(work)
            /\ FieldOver(updated)
    /\ UNCHANGED <<db, store, tmp, env>>
    /\ UNCHANGED sched

\* _delete_s3_object (lines 145-163): delete_object for the second segment of
\* the old path; no second segment, no call; a failure is logged and swallowed
Delete(o) ==
    /\ at = "delete"
    /\ LET key == DeleteKey(work.old_path)
       IN  IF key = NoPath
           THEN /\ o = "ok"
                /\ work' = Finished(work)
                /\ UNCHANGED <<store, env>>
           ELSE /\ Answer(o)
                /\ env' = Counted(env, o)
                /\ work' = Finished(Noted([work EXCEPT !.deleted = key], o))
                /\ store' = IF o = "ok" THEN Drop(store, key) ELSE store
    /\ log' = Processed(log)
    /\ FieldOver(updated)
    /\ UNCHANGED <<db, tmp, templates>>
    /\ UNCHANGED sched

\* the commit is made after every record
CommitPerRecord == at = "field" /\ fld = "download_url" /\ idx > 1

\* the place of line 65: after the loop of lines 58-63
LoopOver == at = "field" /\ idx > Len(templates)

\* a commit that failed is made again
AfterCommitRetry(o) == IF o = "ok" THEN "done" ELSE "field"

\* after line 65 the run is over: line 66, or the handler of lines 68-69
AfterCommit(o) == "done"

\* execute, lines 65-69: session.commit(), and the handler when it fails
Commit(o) ==
    /\ LoopOver
    /\ Answer(o)
    /\ env' = Counted(env, o)
    /\ IF o = "ok"
       THEN /\ db' = Flush(db, templates)
            /\ log' = [log EXCEPT !.commits = @ + 1, !.committed = TRUE]
       ELSE /\ db' = db
            /\ log' = [log EXCEPT !.commits = @ + 1, !.error = TRUE,
                                  !.outcome = ExecuteEnds(o)]
    /\ at' = AfterCommit(o)
    /\ UNCHANGED <<store, tmp, templates, idx, fld, work, updated, updated_count>>
    /\ UNCHANGED sched

\* execute is over; the scheduler may call it again
Return ==
    /\ at = "done"
    /\ at' = "idle"
    /\ UNCHANGED <<db, store, tmp, env, templates, idx, fld, work, updated, updated_count, log>>
    /\ UNCHANGED sched

LinkNext ==
    \/ \E o \in {"ok", "session", "query", "client"} : BeginRun(o)
    \/ FieldStart
    \/ \E o \in {"ok", "error"} : HeadObject(o)
    \/ \E o \in {"ok", "error"} : Sign(o)
    \/ \E o \in {"ok", "status", "read"} : Get(o)
    \/ \E o \in {"ok", "error"} : Upload(o)
    \/ \E o \in {"ok", "error"} : SignNew(o)
    \/ Cleanup
    \/ Assign
    \/ \E o \in {"ok", "error"} : Delete(o)
    \/ \E o \in {"ok", "error"} : Commit(o)
    \/ Return

SpecLink == LinkInit /\ [][LinkNext]_vars

(***************************************************************************)
(* Properties of the scheduler.                                            *)
(***************************************************************************)

\* C1 (as stated): at most one execution of a task is in flight at any time.
C1_NoOverlap == \A id \in TaskIds : InFlight(coros, id) <= 1

\* C1 (amended): the scheduler has no run guard and executions of one task
\* can overlap; what holds is that one step of the scheduler or of the loop
\* (a start(), a cron fire, a loop iteration) puts at most one more execution
\* of a task in flight.
C1_OneMorePerDispatch ==
    [][\A id \in TaskIds : InFlight(coros', id) <= InFlight(coros, id) + 1]_vars

\* the immediate run of start() and a cron fire of the same task are both in flight
C1_Overlap ==
    \E id \in TaskIds :
        /\ Coro("run_task_now", Task(id, 90), "execute") \in DOMAIN coros
        /\ Coro("cron_execute", Task(id, 90), "execute") \in DOMAIN coros

\* C2: once shutdown() has returned, neither a cron fire nor a repeating loop
\* begins another execute(); here for the step that follows the return.
C2_NoRunAfterShutdown ==
    [][last.op = "shutdown" => last'.op \notin {"tick", "wake"}]_vars

\* C3: a task with an interval below a minute never has more than one live
\* repeating loop, however many minute ticks its handle sees.
C3_OneLoop == \A id \in TaskIds : NumLoops(coros, id) <= 1

\* C4: start() with a non-empty registry leaves every registered task with a
\* started handle and creates exactly one immediate execution of it; with an
\* empty registry it changes nothing.
C4_StartActivatesAll ==
    [][last'.op = "start" =>
         IF DOMAIN tasks = {}
         THEN crons' = crons /\ coros' = coros /\ tasks' = tasks
         ELSE \A id \in DOMAIN tasks :
                /\ id \in DOMAIN crons'
                /\ crons'[id].started
                /\ NumNow(coros', id) = NumNow(coros, id) + 1]_vars

\* C5: with an interval of an hour or more, consecutive fires are
\* floor(interval/3600) hours apart and fall on minute 0.
C5_HourlySpacing ==
    \A id \in DOMAIN tasks :
        (tasks[id].interval >= 3600 /\ cal.gap > 0) =>
            /\ cal.gap = (tasks[id].interval \div 3600) * 60
            /\ cal.lastFire % 60 = 0

\* C6: with an interval from a minute to below an hour, consecutive fires are
\* floor(interval/60) minutes apart.
C6_MinuteSpacing ==
    \A id \in DOMAIN tasks :
        (tasks[id].interval >= 60 /\ tasks[id].interval < 3600 /\ cal.gap > 0) =>
            cal.gap = tasks[id].interval \div 60

\* C7: add_task with a registered identifier returns False and leaves tasks
\* and crons as they are; with a new identifier it returns True and the
\* registry grows by exactly that entry.
C7_AddTask ==
    [][\A id \in TaskIds :
         (last'.op = "add_task" /\ last'.id = id) =>
            IF id \in DOMAIN tasks
            THEN last'.ret = FALSE /\ tasks' = tasks /\ crons' = crons
            ELSE /\ last'.ret = TRUE
                 /\ DOMAIN tasks' = DOMAIN tasks \cup {id}
                 /\ Cardinality(DOMAIN tasks') = Cardinality(DOMAIN tasks) + 1
                 /\ \A o \in DOMAIN tasks : tasks'[o] = tasks[o]]_vars

\* a registration was refused while the first task and its started handle stay
C7_DuplicateRefused ==
    \E id \in TaskIds :
        /\ last = Did("add_task", id, FALSE)
        /\ id \in DOMAIN tasks
        /\ id \in DOMAIN crons
        /\ crons[id].started

\* C8: remove_task of an unknown identifier returns False and changes
\* nothing; of a known one it returns True, the task and its handle are gone,
\* and every other task and handle is as before.
C8_RemoveTask ==
    [][\A id \in TaskIds :
         (last'.op = "remove_task" /\ last'.id = id) =>
            IF id \notin DOMAIN tasks
            THEN last'.ret = FALSE /\ tasks' = tasks /\ crons' = crons
            ELSE /\ last'.ret = TRUE
                 /\ DOMAIN tasks' = DOMAIN tasks \ {id}
                 /\ DOMAIN crons' = DOMAIN crons \ {id}
                 /\ \A o \in DOMAIN tasks' : tasks'[o] = tasks[o]
                 /\ \A o \in DOMAIN crons' : crons'[o] = crons[o]]_vars

\* a task was removed while another one keeps its started handle
C8_RemovedOne ==
    \E id \in TaskIds, o \in TaskIds :
        /\ last = Did("remove_task", id, TRUE)
        /\ o # id
        /\ o \in DOMAIN crons
        /\ crons[o].started

\* C9: shutdown() keeps the registry and leaves no handle, and a second
\* shutdown() right after the first changes nothing.
C9_Shutdown ==
    [][last'.op = "shutdown" =>
         /\ tasks' = tasks
         /\ DOMAIN crons' = {}
         /\ coros' = coros
         /\ (last.op = "shutdown" => crons' = crons)]_vars

\* shutdown() has returned with two tasks registered and coroutines on the loop
C9_AfterShutdown ==
    /\ last.op = "shutdown"
    /\ DOMAIN tasks = TaskIds
    /\ coros # EmptyBag

\* the handle of id is the started handle of a task with an interval below a minute
SubMinuteStarted(id) ==
    /\ id \in DOMAIN crons
    /\ crons[id].started
    /\ crons[id].func = "wrapped_task"

\* C10: a task with an interval below a minute is run once by start(); while
\* its handle stays started its loops begin execute() again and again forever
\* without a new tick; a loop begins execute() only out of its sleep of
\* task.interval seconds, and no execution, returned or raised, ends a loop.
C10_RunsForever ==
    /\ \A id \in LiveIds :
         <>[]SubMinuteStarted(id) => []<>(last = Did("wake", id, None))
    /\ [][\A id \in LiveIds :
            (last'.op = "start" /\ id \in DOMAIN crons) =>
                NumNow(coros', id) = NumNow(coros, id) + 1]_vars
    /\ [][\A id \in LiveIds : NumLoops(coros', id) >= NumLoops(coros, id)]_vars
    /\ [][\A c \in CoroSpace :
            (c.kind = "seconds_runner" /\ c.pc = "execute"
               /\ CopiesIn(c, coros') > CopiesIn(c, coros)) =>
                \/ last'.op = "tick"
                \/ /\ last'.op = "wake"
                   /\ CopiesIn([c EXCEPT !.pc = "sleep"], coros')
                        = CopiesIn([c EXCEPT !.pc = "sleep"], coros) - 1]_vars

\* a loop has begun execute() again out of its sleep
C10_LoopRepeats ==
    \E id \in LiveIds :
        /\ SubMinuteStarted(id)
        /\ last = Did("wake", id, None)
        /\ Coro("seconds_runner", Task(id, 30), "execute") \in DOMAIN coros


(***************************************************************************)
(* Properties of the link updater.                                         *)
(***************************************************************************)

\* C11 (as stated): every run of execute() has called commit exactly once
\* when it ends.
C11_CommitsOnce == at = "done" => log.commits = 1

\* C11 (amended): a run that reached the loop over the templates has called
\* commit exactly once when it ends, whatever failed in the fields; before
\* the end of the run, and in a run that ended before the loop, commit was
\* not called.
C11_CommitsOnceAfterLoop ==
    /\ (at \in {"done", "idle"} /\ log.looped) => log.commits = 1
    /\ (at \notin {"done", "idle"} \/ ~log.looped) => log.commits = 0

\* a run over two templates ends with its one commit though a field failed
C11_CommittedDespiteFailure ==
    /\ at = "done"
    /\ log.commits = 1
    /\ Len(templates) = 2
    /\ env.faults > 0
    /\ ~log.error

\* C12: at the end of a run, the key that the new URL of every field changed
\* in the run was signed for holds an object in the store.
C12_NewUrlsDereference ==
    at = "done" => \A r \in log.signed : r.key \in DOMAIN store

\* C13: when the probe of the path extracted from a download URL finds the
\* object (and no call of the refresh fails), then after the refresh the field
\* holds a newly issued presigned URL and the probed key is no longer in the
\* store.
C13_OldKeyGone ==
    (/\ work.stage = "finished"
     /\ work.fld = "download_url"
     /\ work.found
     /\ ~work.fault)
    => /\ templates[work.idx].download_url = work.new_url
       /\ work.new_url.q > 0
       /\ work.new_url # work.url
       /\ work.path \notin DOMAIN store

\* C14: the refresh of a field that holds a presigned URL issued by an earlier
\* refresh, the object of the key it was signed for being in the store (and no
\* call of the refresh failing), gives a different URL signed for the same key
\* and makes no upload and no delete call.
C14_SecondRefreshResigns ==
    (/\ work.stage = "finished"
     /\ work.url.q > 0
     /\ ~work.fault
     /\ SignedKey(work.url, env) \in DOMAIN store)
    => /\ work.new_url # work.url
       /\ SignedKey(work.new_url, env) = SignedKey(work.url, env)
       /\ ~work.uploaded
       /\ work.deleted = NoPath

\* C15 (as stated): when the probe did not find the key (or failed) and the
\* URL was fetched with status 200, then after the refresh a key that was not
\* in the store before holds the fetched content, the field holds a presigned
\* URL for that key and its old value is gone.
C15_Reuploaded ==
    (/\ work.stage = "finished"
     /\ work.fld = "download_url"
     /\ ~work.found
     /\ work.http = "200")
    => /\ work.uploaded
       /\ work.fresh
       /\ work.key \in DOMAIN store
       /\ store[work.key] = Body(work.url.segs)
       /\ templates[work.idx].download_url = work.new_url
       /\ SignedKey(work.new_url, env) = work.key
       /\ templates[work.idx].download_url # work.url

\* C15 (amended): the same, when the upload and the signature of the new key
\* succeed as well; and when one of them fails the field keeps its value.
C15_ReuploadedWhenStored ==
    (/\ work.stage = "finished"
     /\ work.fld = "download_url"
     /\ ~work.found
     /\ work.http = "200")
    => IF work.uploaded /\ ~work.raised
       THEN /\ work.fresh
            /\ work.key \in DOMAIN store
            /\ store[work.key] = Body(work.url.segs)
            /\ templates[work.idx].download_url = work.new_url
            /\ work.new_url.q > 0
            /\ SignedKey(work.new_url, env) = work.key
            /\ templates[work.idx].download_url # work.url
       ELSE templates[work.idx].download_url = work.url

\* the download URL of a key that is missing was fetched and stored under a
\* new key
C15_MissingKeyReuploaded ==
    /\ work.stage = "finished"
    /\ work.fld = "download_url"
    /\ ~work.found
    /\ ~work.fault
    /\ work.http = "200"
    /\ work.uploaded
    /\ work.key \in DOMAIN store
    /\ templates[work.idx].download_url = work.new_url

\* C16: a run of execute() ends by returning, whatever failed; a run that
\* ended in the handler of the run (session, query, client or commit failure)
\* has committed nothing: the table is as the run found it.
C16_NeverRaises ==
    /\ log.outcome = "returned"
    /\ log.error => (~log.committed /\ at \in {"done", "idle"})
    /\ (log.error /\ log.looped) =>
          \A k \in DOMAIN templates :
              \A f \in {"download_url", "image_url"} :
                  (\E r \in log.signed : r.idx = k /\ r.fld = f)
                      => db[templates[k].id][f] # templates[k][f]

\* a run that changed a field ended in a failing commit
C16_CommitFailed ==
    /\ at = "done"
    /\ log.error
    /\ log.commits = 1
    /\ log.signed # {}
    /\ log.outcome = "returned"

\* C17: a field that is absent is not attempted and keeps its value; a record
\* with both fields absent gets no store call and no HTTP call and is not
\* counted as updated; a field that was not given a new URL keeps the value
\* the table has for it (so the other field of a record is unchanged when
\* only one is refreshed); the records counted as updated are those with a
\* changed field.
C17_AbsentStaysAbsent ==
    /\ \A k \in DOMAIN templates :
        LET t == templates[k]
            Signed(f) == \E r \in log.signed : r.idx = k /\ r.fld = f
        IN  /\ \A f \in {"download_url", "image_url"} :
                 /\ Falsy(t[f]) => (CopiesIn(<<k, f>>, log.attempts) = 0 /\ ~Signed(f))
                 /\ (~Signed(f) /\ ~log.committed) => t[f] = db[t.id][f]
                 /\ (Signed(f) /\ ~log.committed) => ~Falsy(db[t.id][f])
            /\ (Falsy(t.download_url) /\ Falsy(t.image_url)) =>
                 (k \notin log.called /\ ~(k = idx /\ updated))
    /\ updated_count =
          Cardinality({k \in log.processed : \E r \in log.signed : r.idx = k})

\* a run over a record with both fields empty and a record with one field
\* NULL whose other field was refreshed
C17_OneFieldRefreshed ==
    /\ at = "done"
    /\ Len(templates) = 2
    /\ Falsy(templates[1].download_url) /\ Falsy(templates[1].image_url)
    /\ templates[2].image_url = NoneUrl
    /\ \E r \in log.signed : r.idx = 2 /\ r.fld = "download_url"
    /\ updated_count = 1

\* C18: in a run that reached the loop, no field is attempted twice, the
\* fields before the one being processed have been attempted once each if
\* populated, and at the end of the run every populated field of every queried
\* record has been attempted exactly once and every record was processed,
\* whatever failed.
C18_EveryFieldAttemptedOnce ==
    log.looped =>
      /\ \A k \in DOMAIN templates :
           \A f \in {"download_url", "image_url"} :
              /\ CopiesIn(<<k, f>>, log.attempts) <= 1
              /\ (k < idx \/ at \in {"done", "idle"}) =>
                    CopiesIn(<<k, f>>, log.attempts) = (IF Present(templates[k][f]) THEN 1 ELSE 0)
      /\ at \in {"done", "idle"} => log.processed = DOMAIN templates

\* a run in which the download URL of the first of two records failed and
\* the image URL of the second was refreshed all the same
C18_LaterFieldsAfterFailure ==
    /\ at = "done"
    /\ Len(templates) = 2
    /\ env.faults > 0
    /\ ~log.error
    /\ ~(\E r \in log.signed : r.idx = 1 /\ r.fld = "download_url")
    /\ CopiesIn(<<1, "download_url">>, log.attempts) = 1
    /\ \E r \in log.signed : r.idx = 1 /\ r.fld = "image_url"
    /\ \E r \in log.signed : r.idx = 2 /\ r.fld = "image_url"

\* C19: the temporary file exists only inside the re-upload step: once the
\* step has returned or raised, after a failed or complete download, a failed
\* upload, a failed signature or a success, it is gone.
C19_TempFileRemoved ==
    /\ tmp # "none" => at \in {"upload", "signnew", "cleanup"}
    /\ (work.stage = "finished" \/ at \in {"assign", "delete"}) => tmp = "none"

\* a re-upload whose download broke off in the middle is over
C19_RemovedAfterBrokenDownload ==
    /\ work.stage = "finished"
    /\ work.http = "broken"
    /\ work.raised
    /\ tmp = "none"

\* C20: a step that calls commit is taken when every queried record has been
\* processed and no field is being refreshed; and after the commit of a run no
\* step of that run changes a template, the store, or issues a probe, a
\* signature, an upload or a deletion.
C20_CommitLast ==
    [][/\ log'.commits > log.commits =>
            /\ log.processed = DOMAIN templates
            /\ work.stage # "running"
            /\ idx = Len(templates) + 1
       /\ (log.commits > 0 /\ at # "idle") =>
            /\ templates' = templates
            /\ store' = store
            /\ env'.clock = env.clock
            /\ env'.uuids = env.uuids
            /\ log'.called = log.called
            /\ log'.signed = log.signed
            /\ work' = work]_vars

\* a run over two records that changed two fields has committed
C20_CommittedAfterTwoRecords ==
    /\ at = "done"
    /\ log.committed
    /\ log.processed = {1, 2}
    /\ Cardinality(log.signed) >= 2

\* C21: every delete call made for a field has for key the path that was
\* extracted from the field's old URL and probed.
C21_DeletesOldPath ==
    work.deleted # NoPath =>
        /\ work.deleted = work.old_path
        /\ work.deleted = work.path

\* C22: the identifiers with a handle are always identifiers of the registry
\* (no handle is left for a task that is not registered); they are all of them
\* at the start, and every call other than shutdown() that finds them equal
\* leaves them equal, so they are equal as long as shutdown() was never called.
C22_HandlesOfRegistered ==
    /\ DOMAIN crons = DOMAIN tasks
    /\ [](DOMAIN crons \subseteq DOMAIN tasks)
    /\ [][(DOMAIN crons = DOMAIN tasks /\ last'.op # "shutdown")
              => DOMAIN crons' = DOMAIN tasks']_vars
    /\ [][\A id \in DOMAIN tasks \ DOMAIN tasks' : id \notin DOMAIN crons']_vars

\* a task added after shutdown() has its handle; the task registered before
\* is still registered and has none
C22_AddedAfterShutdown ==
    \E id \in TaskIds, o \in TaskIds :
        /\ last = Did("add_task", id, TRUE)
        /\ DOMAIN crons = {id}
        /\ DOMAIN tasks = {id, o}
        /\ o # id

====
